---- MODULE Spec2Model ----
(***************************************************************************)
(* Model of mqtt_node_network/node.py: the MQTTNode wrapper around an MQTT *)
(* transport client.  Two threads of control are modelled: the caller's    *)
(* thread (connect, publish, subscribe, unsubscribe,                       *)
(* add_subscription_topic) and the transport's background task, which      *)
(* delivers the callbacks (on_connect, on_connect_fail, on_disconnect,     *)
(* on_message, on_publish).  The transport itself is an external           *)
(* collaborator; it is modelled by the state node.py can observe through   *)
(* it: is_connected(), the result code of subscribe(), and the exceptions  *)
(* connect()/reconnect() raise.  A session is opened only by a connect()   *)
(* or reconnect() call of node.py; the background task acknowledges it     *)
(* (on_connect) or loses it (on_connect_fail, on_disconnect).              *)
(***************************************************************************)
EXTENDS Integers, Sequences, FiniteSets, TLC

(* ---------------------------- bounds ----------------------------------- *)
MaxCalls == 3          \* caller operations started in one behaviour
MaxDrops == 1          \* sessions lost (disconnect and connect-failure events)
MaxConnects == 2       \* connection acknowledgments delivered
MaxReconnects == 3     \* reconnect() attempts modelled inside one call
MaxMsgs == 2           \* message-received callbacks
MaxPayload == 2        \* largest payload length of a message
MaxNodes == 3          \* constructions of nodes
MaxPad == 1            \* whitespace characters at either end of a logged string
MaxBody == 78          \* characters of a logged string between them

Topics == {"a", "b"}
(* the (topic, qos) arguments the caller subscribes with *)
Requests == { <<"a", 0>>, <<"a", 1>>, <<"b", 0>> }

(* broker_config.reconnect_attempts, stored by __init__ *)
reconnect_attempts == 2

(* paho's MQTT_ERR_NO_CONN, the literal tested in subscribe() *)
MQTT_ERR_NO_CONN == 4
(* shorten_data's default max_length *)
default_max_length == 75

VARIABLES
  subscriptions,   \* self.subscriptions: list of registry entries
  nextOid,         \* number of SubscribeOptions objects created so far
  loopStarted,     \* client.loop_start() has been called
  link,            \* transport session: "down", "connecting", "connected"
  pc,              \* caller thread: position inside the running operation
  op,              \* caller thread: operation running (or last run)
  reconnects,      \* local variable of ensure_connection (0: not assigned)
  curTopic,        \* local variable topic of subscribe()
  raised,          \* exception that ended the last caller operation
  bg,              \* background task: "idle" or "replay" (inside on_connect)
  replayIdx,       \* position of the for loop of restore_subscriptions
  msgSent,         \* node_messages_sent_count
  bytesSent,       \* node_bytes_sent_count
  msgRecv,         \* node_messages_received_count
  bytesRecv,       \* node_bytes_received_count
  inflight,        \* messages handed to the transport, not yet acknowledged
  calls,           \* history: caller operations started
  drops,           \* history: disconnect events
  connects,        \* history: on_connect callbacks
  pubCalls,        \* history: publish() calls made
  acks,            \* history: on_publish callbacks delivered
  callDown,        \* history: an is_connected() of this call returned False
  callUp,          \* history: an is_connected() of this call returned True
  callOk,          \* history: a connection attempt of this call did not raise
  replaySnap,      \* history: registry when the last on_connect started
  replayLog,       \* history: subscribe calls issued by the last replay
  unsubStage,      \* history, per filter: 0 none, 1 unsubscribed,
                   \*   2 disconnected since, 3 reconnected since
  resubscribed,    \* history: filters replayed after unsubscribe + reconnect
  everSubscribed,  \* history: filters a transport subscribe was issued for
  lastSub,         \* history: topic and result code of the last subscribe()
  delivered,       \* history: messages the transport delivered to on_message
  deliveredBytes,  \* history: sum of the payload lengths of those messages
  ids,             \* MQTTNode._ids: next value of the itertools.count()
  nodes,           \* history: the constructions of nodes so far
  sdIn,            \* shorten_data: the input string
  sdOut            \* shorten_data: results of its successive applications

nodeVars == << subscriptions, nextOid, loopStarted, link, pc, op, reconnects,
           curTopic, raised, bg, replayIdx, msgSent, bytesSent, msgRecv,
           bytesRecv, inflight, calls, drops, connects, pubCalls, acks,
           callDown, callUp, callOk, replaySnap, replayLog, unsubStage,
           resubscribed, everSubscribed >>

msgHist == << delivered, deliveredBytes >>
idVars == << ids, nodes >>
sdVars == << sdIn, sdOut >>

vars == << nodeVars, lastSub, msgHist, idVars, sdVars >>

callerVars == << pc, op, reconnects, curTopic, raised, calls, pubCalls,
                 callDown, callUp, callOk >>
replayVars == << bg, replayIdx, replaySnap, replayLog >>
counterVars == << msgSent, bytesSent, msgRecv, bytesRecv >>
unsubVars == << unsubStage, resubscribed, everSubscribed >>

(* ------------------------ registry entries ----------------------------- *)
(* An entry is either a bare topic string (only the constructor's          *)
(* subscriptions argument can hold one) or a tuple (filter,                *)
(* SubscribeOptions(qos)).  SubscribeOptions defines no __eq__, so two     *)
(* option objects are equal only if they are the same object: oid is the   *)
(* object's identity.                                                      *)
StrEntry(t) == [kind |-> "str", filter |-> t, qos |-> 0, oid |-> 0]
TupleEntry(t, q, o) == [kind |-> "tuple", filter |-> t, qos |-> q, oid |-> o]
NoTopic == [kind |-> "none", filter |-> "", qos |-> 0, oid |-> 0]
(* no subscribe() call yet *)
NoSub == [topic |-> NoTopic, rc |-> 0]

Range(s) == {s[i] : i \in 1..Len(s)}
Filters(s) == {s[i].filter : i \in 1..Len(s)}

(* client.is_connected() *)
is_connected == link = "connected"

(* result[0] of client.subscribe(): MQTT_ERR_NO_CONN without a socket *)
SubscribeResult(l) == IF l = "down" THEN MQTT_ERR_NO_CONN ELSE 0

(* add_subscription_topic(topic, qos) on the list subs; oid is the         *)
(* identity of the SubscribeOptions line 206 creates for a bare string     *)
AddTopic(subs, topic, qos, oid) ==
  LET t == IF topic.kind = "str" THEN TupleEntry(topic.filter, qos, oid)
           ELSE topic
  IN IF t \notin Range(subs) THEN Append(subs, t) ELSE subs

(* ------------------------------ Init ----------------------------------- *)
(* __init__: subscriptions = subscriptions or [] *)
InitSubscriptions ==
  { << >>, << StrEntry("a") >>, << TupleEntry("b", 1, 1) >> }

(* the node after construction *)
InitNode ==
  /\ subscriptions \in InitSubscriptions
  /\ nextOid = 1
  /\ loopStarted = FALSE
  /\ link = "down"
  /\ pc = "idle"
  /\ op = "none"
  /\ reconnects = 0
  /\ curTopic = NoTopic
  /\ raised = "none"
  /\ bg = "idle"
  /\ replayIdx = 0
  /\ msgSent = 0
  /\ bytesSent = 0
  /\ msgRecv = 0
  /\ bytesRecv = 0
  /\ inflight = 0
  /\ calls = 0
  /\ drops = 0
  /\ connects = 0
  /\ pubCalls = 0
  /\ acks = 0
  /\ callDown = FALSE
  /\ callUp = FALSE
  /\ callOk = FALSE
  /\ replaySnap = << >>
  /\ replayLog = << >>
  /\ unsubStage = [t \in Topics |-> 0]
  /\ resubscribed = {}
  /\ everSubscribed = {}
  /\ lastSub = NoSub
  /\ delivered = 0
  /\ deliveredBytes = 0

(* the class before any node is constructed *)
InitIds ==
  /\ ids = 0
  /\ nodes = << >>

(* no shorten_data call *)
InitNoShorten ==
  /\ sdIn = << >>
  /\ sdOut = << >>

Init ==
  /\ InitNode
  /\ InitIds
  /\ InitNoShorten

(* ------------------------- caller's thread ----------------------------- *)
(* what a connection attempt of the transport can do: succeed at the       *)
(* socket level, or raise                                                  *)
ConnectOutcomes == {"ok", "ConnectionRefusedError", "TimeoutError"}

(* a caller operation starts: locals of the previous one are gone *)
Begin(o) ==
  /\ pc = "idle"
  /\ calls < MaxCalls
  /\ calls' = calls + 1
  /\ op' = o
  /\ raised' = "none"
  /\ reconnects' = 0
  /\ callDown' = FALSE
  /\ callUp' = FALSE
  /\ callOk' = FALSE

(* an exception leaves the running operation *)
Raise(e) ==
  /\ raised' = e
  /\ pc' = "idle"

(* ensure_connection returns to connect() (return self) or to publish() *)
AfterEnsure == IF op = "publish" THEN "p231" ELSE "idle"

(* connect(), line 161: client.loop_start() *)
connect ==
  /\ Begin("connect")
  /\ loopStarted' = TRUE
  /\ pc' = "c162"
  /\ UNCHANGED << subscriptions, nextOid, link, curTopic, pubCalls, inflight,
                  drops, connects, acks >>
  /\ UNCHANGED << replayVars, counterVars, unsubVars >>
  /\ UNCHANGED << lastSub, msgHist, idVars, sdVars >>

(* connect() as it would be without the is_connected() test of line 162 *)
connect_check_always ==
  /\ pc = "c162"
  /\ pc' = "c163"
  /\ UNCHANGED << subscriptions, nextOid, loopStarted, link, op, reconnects,
                  curTopic, raised, inflight, calls, drops, connects,
                  pubCalls, acks, callDown, callUp, callOk >>
  /\ UNCHANGED << replayVars, counterVars, unsubVars >>
  /\ UNCHANGED << lastSub, msgHist, idVars, sdVars >>

(* connect(), line 162: if self.client.is_connected() is False *)
connect_check ==
  /\ pc = "c162"
  /\ IF is_connected
       THEN /\ pc' = "e215"
            /\ callUp' = TRUE
            /\ UNCHANGED callDown
       ELSE /\ pc' = "c163"
            /\ callDown' = TRUE
            /\ UNCHANGED callUp
  /\ UNCHANGED << subscriptions, nextOid, loopStarted, link, op, reconnects,
                  curTopic, raised, inflight, calls, drops, connects,
                  pubCalls, acks, callOk >>
  /\ UNCHANGED << replayVars, counterVars, unsubVars >>
  /\ UNCHANGED << lastSub, msgHist, idVars, sdVars >>

(* connect(), lines 163-164: client.connect(...), not inside any try *)
connect_initial ==
  /\ pc = "c163"
  /\ \E outcome \in ConnectOutcomes :
       IF outcome = "ok"
         THEN /\ link' = "connecting"
              /\ pc' = "e215"
              /\ callOk' = TRUE
              /\ UNCHANGED raised
         ELSE /\ link' = "down"
              /\ Raise(outcome)
              /\ UNCHANGED callOk
  /\ UNCHANGED << subscriptions, nextOid, loopStarted, op, reconnects,
                  curTopic, inflight, calls, drops, connects, pubCalls, acks,
                  callDown, callUp >>
  /\ UNCHANGED << replayVars, counterVars, unsubVars >>
  /\ UNCHANGED << lastSub, msgHist, idVars, sdVars >>

(* ensure_connection as it would be without the early return of lines     *)
(* 215-216                                                                 *)
ensure_connection_check_no_return ==
  /\ pc = "e215"
  /\ pc' = "e220"
  /\ reconnects' = 1
  /\ callUp' = (callUp \/ is_connected)
  /\ callDown' = (callDown \/ ~is_connected)
  /\ UNCHANGED << subscriptions, nextOid, loopStarted, link, op, curTopic,
                  raised, inflight, calls, drops, connects, pubCalls, acks,
                  callOk >>
  /\ UNCHANGED << replayVars, counterVars, unsubVars >>
  /\ UNCHANGED << lastSub, msgHist, idVars, sdVars >>

(* ensure_connection, lines 215-217 *)
ensure_connection_check ==
  /\ pc = "e215"
  /\ IF is_connected
       THEN /\ pc' = AfterEnsure
            /\ callUp' = TRUE
            /\ UNCHANGED << reconnects, callDown >>
       ELSE /\ pc' = "e218"
            /\ reconnects' = 1
            /\ callDown' = TRUE
            /\ UNCHANGED callUp
  /\ UNCHANGED << subscriptions, nextOid, loopStarted, link, op, curTopic,
                  raised, inflight, calls, drops, connects, pubCalls, acks,
                  callOk >>
  /\ UNCHANGED << replayVars, counterVars, unsubVars >>
  /\ UNCHANGED << lastSub, msgHist, idVars, sdVars >>

(* ensure_connection, line 218: while self.client.is_connected() is False *)
ensure_connection_loop ==
  /\ pc = "e218"
  /\ IF is_connected
       THEN /\ pc' = AfterEnsure
            /\ callUp' = TRUE
            /\ UNCHANGED callDown
       ELSE /\ pc' = "e220"
            /\ callDown' = TRUE
            /\ UNCHANGED callUp
  /\ UNCHANGED << subscriptions, nextOid, loopStarted, link, op, reconnects,
                  curTopic, raised, inflight, calls, drops, connects,
                  pubCalls, acks, callOk >>
  /\ UNCHANGED << replayVars, counterVars, unsubVars >>
  /\ UNCHANGED << lastSub, msgHist, idVars, sdVars >>

(* ensure_connection, lines 219-227: one pass of the loop body.            *)
(* reconnect() closes the current socket and opens a new session; only     *)
(* ConnectionRefusedError is caught; the pass ends in time.sleep(timeout). *)
ensure_connection_reconnect ==
  /\ pc = "e220"
  /\ reconnects <= MaxReconnects
  /\ \E outcome \in ConnectOutcomes :
       CASE outcome = "ok" ->
              /\ link' = "connecting"
              /\ reconnects' = reconnects + 1
              /\ pc' = "e218"
              /\ callOk' = TRUE
              /\ UNCHANGED raised
         [] outcome = "ConnectionRefusedError" ->
              /\ link' = "down"
              /\ reconnects' = reconnects + 1
              /\ pc' = "e218"
              /\ UNCHANGED << raised, callOk >>
         [] OTHER ->
              /\ link' = "down"
              /\ Raise(outcome)
              /\ UNCHANGED << reconnects, callOk >>
  /\ UNCHANGED << subscriptions, nextOid, loopStarted, op, curTopic, inflight,
                  calls, drops, connects, pubCalls, acks,
                  callDown, callUp >>
  /\ UNCHANGED << replayVars, counterVars, unsubVars >>
  /\ UNCHANGED << lastSub, msgHist, idVars, sdVars >>

(* publish() as it would be without the ensure_connection() of line 230 *)
publish_no_ensure ==
  /\ Begin("publish")
  /\ pubCalls' = pubCalls + 1
  /\ pc' = "p231"
  /\ UNCHANGED << subscriptions, nextOid, loopStarted, link, curTopic,
                  inflight, drops, connects, acks >>
  /\ UNCHANGED << replayVars, counterVars, unsubVars >>
  /\ UNCHANGED << lastSub, msgHist, idVars, sdVars >>

(* publish(), line 230: the call enters ensure_connection *)
publish ==
  /\ Begin("publish")
  /\ pubCalls' = pubCalls + 1
  /\ pc' = "e215"
  /\ UNCHANGED << subscriptions, nextOid, loopStarted, link, curTopic,
                  inflight, drops, connects, acks >>
  /\ UNCHANGED << replayVars, counterVars, unsubVars >>
  /\ UNCHANGED << lastSub, msgHist, idVars, sdVars >>

(* publish() as it would be if it counted the message at call time *)
publish_send_counts ==
  /\ pc = "p231"
  /\ inflight' = IF link = "down" THEN inflight ELSE inflight + 1
  /\ msgSent' = msgSent + 1
  /\ pc' = "idle"
  /\ UNCHANGED << subscriptions, nextOid, loopStarted, link, op, reconnects,
                  curTopic, raised, calls, drops, connects, pubCalls, acks,
                  callDown, callUp, callOk >>
  /\ UNCHANGED << replayVars, unsubVars, bytesSent, msgRecv, bytesRecv >>
  /\ UNCHANGED << lastSub, msgHist, idVars, sdVars >>

(* publish() as it would be if it added the payload's length to the        *)
(* bytes-sent counter                                                      *)
publish_send_counts_bytes ==
  /\ pc = "p231"
  /\ \E n \in 0..MaxPayload :
       /\ inflight' = IF link = "down" THEN inflight ELSE inflight + 1
       /\ bytesSent' = bytesSent + n
  /\ pc' = "idle"
  /\ UNCHANGED << subscriptions, nextOid, loopStarted, link, op, reconnects,
                  curTopic, raised, calls, drops, connects, pubCalls, acks,
                  callDown, callUp, callOk >>
  /\ UNCHANGED << replayVars, unsubVars, msgSent, msgRecv, bytesRecv >>
  /\ UNCHANGED << lastSub, msgHist, idVars, sdVars >>

(* publish(), line 231: return self.client.publish(...) with a payload of  *)
(* n bytes.  Without a socket the transport takes no message.              *)
publish_send ==
  /\ pc = "p231"
  /\ \E n \in 0..MaxPayload :
       inflight' = IF link = "down" THEN inflight ELSE inflight + 1
  /\ pc' = "idle"
  /\ UNCHANGED << subscriptions, nextOid, loopStarted, link, op, reconnects,
                  curTopic, raised, calls, drops, connects, pubCalls, acks,
                  callDown, callUp, callOk >>
  /\ UNCHANGED << replayVars, counterVars, unsubVars >>
  /\ UNCHANGED << lastSub, msgHist, idVars, sdVars >>

(* subscribe(topic: str, qos), lines 177-189: normalise, client.subscribe, *)
(* log the result                                                          *)
SubscribeCall(t, q) ==
  /\ Begin("subscribe")
  /\ curTopic' = TupleEntry(t, q, nextOid + 1)
  /\ nextOid' = nextOid + 1
  /\ pc' = "s192"
  /\ unsubStage' = [unsubStage EXCEPT ![t] = 0]
  /\ everSubscribed' = everSubscribed \cup {t}
  /\ UNCHANGED << subscriptions, loopStarted, link, pubCalls, inflight, drops,
                  connects, acks, resubscribed >>
  /\ UNCHANGED << replayVars, counterVars >>
  /\ UNCHANGED << msgHist, idVars, sdVars >>

subscribe(t, q) ==
  /\ SubscribeCall(t, q)
  /\ UNCHANGED lastSub

(* the same call, with its topic and its result code kept as history *)
subscribe_recorded(t, q) ==
  /\ SubscribeCall(t, q)
  /\ lastSub' = [topic |-> TupleEntry(t, q, nextOid + 1),
                 rc |-> SubscribeResult(link)]

(* subscribe() as it would be if it returned after logging a failure *)
subscribe_add_on_success ==
  /\ pc = "s192"
  /\ subscriptions' = IF lastSub.rc = MQTT_ERR_NO_CONN
                        THEN subscriptions
                        ELSE AddTopic(subscriptions, curTopic, curTopic.qos, 0)
  /\ curTopic' = NoTopic
  /\ pc' = "idle"
  /\ UNCHANGED << nextOid, loopStarted, link, op, reconnects, raised,
                  inflight, calls, drops, connects, pubCalls, acks,
                  callDown, callUp, callOk >>
  /\ UNCHANGED << replayVars, counterVars, unsubVars >>
  /\ UNCHANGED << lastSub, msgHist, idVars, sdVars >>

(* subscribe(), line 192: self.add_subscription_topic(topic, qos) *)
subscribe_add ==
  /\ pc = "s192"
  /\ subscriptions' = AddTopic(subscriptions, curTopic, curTopic.qos, 0)
  /\ curTopic' = NoTopic
  /\ pc' = "idle"
  /\ UNCHANGED << nextOid, loopStarted, link, op, reconnects, raised,
                  inflight, calls, drops, connects, pubCalls, acks,
                  callDown, callUp, callOk >>
  /\ UNCHANGED << replayVars, counterVars, unsubVars >>
  /\ UNCHANGED << lastSub, msgHist, idVars, sdVars >>

(* add_subscription_topic(topic: str, qos), lines 204-208 *)
add_subscription_topic(t, q) ==
  /\ Begin("add_subscription_topic")
  /\ subscriptions' = AddTopic(subscriptions, StrEntry(t), q, nextOid + 1)
  /\ nextOid' = nextOid + 1
  /\ pc' = "idle"
  /\ unsubStage' = [unsubStage EXCEPT ![t] = 0]
  /\ UNCHANGED << loopStarted, link, curTopic, pubCalls, inflight, drops,
                  connects, acks, resubscribed, everSubscribed >>
  /\ UNCHANGED << replayVars, counterVars >>
  /\ UNCHANGED << lastSub, msgHist, idVars, sdVars >>

(* unsubscribe(topic), lines 194-202: return self.client.unsubscribe(topic) *)
unsubscribe(t) ==
  /\ Begin("unsubscribe")
  /\ pc' = "idle"
  /\ unsubStage' = IF t \in everSubscribed
                     THEN [unsubStage EXCEPT ![t] = 1]
                     ELSE unsubStage
  /\ UNCHANGED << subscriptions, nextOid, loopStarted, link, curTopic,
                  pubCalls, inflight, drops, connects, acks,
                  resubscribed, everSubscribed >>
  /\ UNCHANGED << replayVars, counterVars >>
  /\ UNCHANGED << lastSub, msgHist, idVars, sdVars >>

(* ------------------- transport's background task ----------------------- *)
(* The callbacks run one at a time in the background task, concurrently    *)
(* with the caller's thread.                                               *)

(* the topic subscribe(topic) works on, lines 177-180 *)
Normalised(e, oid) ==
  IF e.kind = "str" THEN TupleEntry(e.filter, 0, oid) ELSE e

(* on_connect, lines 246-248: the transport has the session acknowledged,  *)
(* the callback logs and enters restore_subscriptions                      *)
on_connect ==
  /\ loopStarted
  /\ bg = "idle"
  /\ link = "connecting"
  /\ connects < MaxConnects
  /\ link' = "connected"
  /\ connects' = connects + 1
  /\ bg' = "replay"
  /\ replayIdx' = 1
  /\ replaySnap' = subscriptions
  /\ replayLog' = << >>
  /\ unsubStage' = [t \in Topics |->
                      IF unsubStage[t] = 2 THEN 3 ELSE unsubStage[t]]
  /\ UNCHANGED << subscriptions, nextOid, loopStarted, inflight, drops, acks,
                  resubscribed, everSubscribed >>
  /\ UNCHANGED << callerVars, counterVars >>
  /\ UNCHANGED << lastSub, msgHist, idVars, sdVars >>

(* restore_subscriptions as it would be if a failed subscribe ended the    *)
(* replay: the for loop is left at the first error result                  *)
restore_subscriptions_abort ==
  /\ bg = "replay"
  /\ replayIdx <= Len(subscriptions)
  /\ LET e == subscriptions[replayIdx]
         topic == Normalised(e, nextOid + 1)
         rc == SubscribeResult(link)
     IN /\ nextOid' = IF e.kind = "str" THEN nextOid + 1 ELSE nextOid
        /\ replayLog' = Append(replayLog,
                          [filter |-> topic.filter, rc |-> rc])
        /\ subscriptions' = AddTopic(subscriptions, topic, 0, 0)
        /\ resubscribed' = IF unsubStage[topic.filter] = 3
                             THEN resubscribed \cup {topic.filter}
                             ELSE resubscribed
        /\ everSubscribed' = everSubscribed \cup {topic.filter}
        /\ replayIdx' = IF rc = MQTT_ERR_NO_CONN
                          THEN Len(subscriptions') + 1
                          ELSE replayIdx + 1
  /\ UNCHANGED << loopStarted, link, bg, replaySnap, inflight, drops,
                  connects, acks, unsubStage >>
  /\ UNCHANGED << callerVars, counterVars >>
  /\ UNCHANGED << lastSub, msgHist, idVars, sdVars >>

(* restore_subscriptions, lines 210-212: one pass of the for loop, that    *)
(* is one self.subscribe(topic) with the default qos: lines 177-192        *)
restore_subscriptions ==
  /\ bg = "replay"
  /\ replayIdx <= Len(subscriptions)
  /\ LET e == subscriptions[replayIdx]
         topic == Normalised(e, nextOid + 1)
     IN /\ nextOid' = IF e.kind = "str" THEN nextOid + 1 ELSE nextOid
        /\ replayLog' = Append(replayLog,
                          [filter |-> topic.filter,
                           rc |-> SubscribeResult(link)])
        /\ subscriptions' = AddTopic(subscriptions, topic, 0, 0)
        /\ resubscribed' = IF unsubStage[topic.filter] = 3
                             THEN resubscribed \cup {topic.filter}
                             ELSE resubscribed
        /\ everSubscribed' = everSubscribed \cup {topic.filter}
  /\ replayIdx' = replayIdx + 1
  /\ UNCHANGED << loopStarted, link, bg, replaySnap, inflight, drops,
                  connects, acks, unsubStage >>
  /\ UNCHANGED << callerVars, counterVars >>
  /\ UNCHANGED << lastSub, msgHist, idVars, sdVars >>

(* restore_subscriptions: the for loop finds the list exhausted, on_connect *)
(* returns                                                                  *)
restore_subscriptions_end ==
  /\ bg = "replay"
  /\ replayIdx > Len(subscriptions)
  /\ bg' = "idle"
  /\ UNCHANGED << subscriptions, nextOid, loopStarted, link, replayIdx,
                  replaySnap, replayLog, inflight, drops, connects, acks >>
  /\ UNCHANGED << callerVars, counterVars, unsubVars >>
  /\ UNCHANGED << lastSub, msgHist, idVars, sdVars >>

(* on_connect_fail, lines 250-251: the session that was being established *)
(* failed before its acknowledgment, the callback logs                     *)
on_connect_fail ==
  /\ loopStarted
  /\ bg = "idle"
  /\ link = "connecting"
  /\ drops < MaxDrops
  /\ link' = "down"
  /\ drops' = drops + 1
  /\ UNCHANGED << subscriptions, nextOid, loopStarted, inflight, connects,
                  acks >>
  /\ UNCHANGED << callerVars, replayVars, counterVars, unsubVars >>
  /\ UNCHANGED << lastSub, msgHist, idVars, sdVars >>

(* on_disconnect as it would be if the callback called client.reconnect() *)
on_disconnect_reconnects ==
  /\ loopStarted
  /\ bg = "idle"
  /\ link = "connected"
  /\ drops < MaxDrops
  /\ link' = "connecting"
  /\ drops' = drops + 1
  /\ unsubStage' = [t \in Topics |->
                      IF unsubStage[t] = 1 THEN 2 ELSE unsubStage[t]]
  /\ UNCHANGED << subscriptions, nextOid, loopStarted, inflight, connects,
                  acks, resubscribed, everSubscribed >>
  /\ UNCHANGED << callerVars, replayVars, counterVars >>
  /\ UNCHANGED << lastSub, msgHist, idVars, sdVars >>

(* on_disconnect as it would be if it dropped the registry with the session *)
on_disconnect_clears ==
  /\ loopStarted
  /\ bg = "idle"
  /\ link = "connected"
  /\ drops < MaxDrops
  /\ link' = "down"
  /\ drops' = drops + 1
  /\ subscriptions' = << >>
  /\ unsubStage' = [t \in Topics |->
                      IF unsubStage[t] = 1 THEN 2 ELSE unsubStage[t]]
  /\ UNCHANGED << nextOid, loopStarted, inflight, connects,
                  acks, resubscribed, everSubscribed >>
  /\ UNCHANGED << callerVars, replayVars, counterVars >>
  /\ UNCHANGED << lastSub, msgHist, idVars, sdVars >>

(* on_disconnect, lines 253-256: the transport lost the session, the       *)
(* callback logs                                                           *)
on_disconnect ==
  /\ loopStarted
  /\ bg = "idle"
  /\ link = "connected"
  /\ drops < MaxDrops
  /\ link' = "down"
  /\ drops' = drops + 1
  /\ unsubStage' = [t \in Topics |->
                      IF unsubStage[t] = 1 THEN 2 ELSE unsubStage[t]]
  /\ UNCHANGED << subscriptions, nextOid, loopStarted, inflight, connects,
                  acks, resubscribed, everSubscribed >>
  /\ UNCHANGED << callerVars, replayVars, counterVars >>
  /\ UNCHANGED << lastSub, msgHist, idVars, sdVars >>

(* on_message as it would be if the byte counter counted messages *)
on_message_counts_messages(n) ==
  /\ loopStarted
  /\ bg = "idle"
  /\ link = "connected"
  /\ msgRecv < MaxMsgs
  /\ msgRecv' = msgRecv + 1
  /\ bytesRecv' = bytesRecv + 1
  /\ delivered' = delivered + 1
  /\ deliveredBytes' = deliveredBytes + n
  /\ UNCHANGED << subscriptions, nextOid, loopStarted, link, msgSent,
                  bytesSent, inflight, drops, connects, acks >>
  /\ UNCHANGED << callerVars, replayVars, unsubVars >>
  /\ UNCHANGED << lastSub, idVars, sdVars >>

(* on_message, lines 258-268, for a message whose payload has n bytes: the *)
(* message counter .inc(), the byte counter .inc(len(message.payload))     *)
on_message(n) ==
  /\ loopStarted
  /\ bg = "idle"
  /\ link = "connected"
  /\ msgRecv < MaxMsgs
  /\ msgRecv' = msgRecv + 1
  /\ bytesRecv' = bytesRecv + n
  /\ delivered' = delivered + 1
  /\ deliveredBytes' = deliveredBytes + n
  /\ UNCHANGED << subscriptions, nextOid, loopStarted, link, msgSent,
                  bytesSent, inflight, drops, connects, acks >>
  /\ UNCHANGED << callerVars, replayVars, unsubVars >>
  /\ UNCHANGED << lastSub, idVars, sdVars >>

(* on_publish, lines 270-274 *)
on_publish ==
  /\ loopStarted
  /\ bg = "idle"
  /\ inflight > 0
  /\ inflight' = inflight - 1
  /\ acks' = acks + 1
  /\ msgSent' = msgSent + 1
  /\ UNCHANGED << subscriptions, nextOid, loopStarted, link, bytesSent,
                  msgRecv, bytesRecv, drops, connects >>
  /\ UNCHANGED << callerVars, replayVars, unsubVars >>
  /\ UNCHANGED << lastSub, msgHist, idVars, sdVars >>

(* --------------------------- specification ----------------------------- *)
(* steps of connect(), ensure_connection() and publish() *)
ConnectionSteps ==
  \/ connect
  \/ connect_check
  \/ connect_initial
  \/ ensure_connection_check
  \/ ensure_connection_loop
  \/ ensure_connection_reconnect

PublishSteps ==
  \/ publish
  \/ publish_send

(* the caller's registry operations *)
RegistrySteps ==
  \/ \E r \in Requests : subscribe(r[1], r[2])
  \/ subscribe_add
  \/ \E r \in Requests : add_subscription_topic(r[1], r[2])
  \/ \E t \in Topics : unsubscribe(t)

(* connection lifecycle callbacks *)
LifecycleCallbacks ==
  \/ on_connect
  \/ restore_subscriptions
  \/ restore_subscriptions_end
  \/ on_connect_fail
  \/ on_disconnect

(* traffic callbacks *)
TrafficCallbacks ==
  \/ \E n \in 0..MaxPayload : on_message(n)
  \/ on_publish

Next ==
  \/ ConnectionSteps
  \/ PublishSteps
  \/ RegistrySteps
  \/ LifecycleCallbacks
  \/ TrafficCallbacks

Spec == Init /\ [][Next]_vars

(* the connection supervisor with publishing and traffic: the registry is  *)
(* the one given at construction                                           *)
NextConn ==
  \/ ConnectionSteps
  \/ PublishSteps
  \/ LifecycleCallbacks
  \/ TrafficCallbacks

SpecConn == Init /\ [][NextConn]_vars

(* the subscription registry and its replay, without traffic *)
NextReg ==
  \/ ConnectionSteps
  \/ RegistrySteps
  \/ LifecycleCallbacks

SpecReg == Init /\ [][NextReg]_vars

(* subscribe() against the connection and the replay, with the result of   *)
(* each subscribe() call on record                                         *)
NextSub ==
  \/ ConnectionSteps
  \/ \E r \in Requests : subscribe_recorded(r[1], r[2])
  \/ subscribe_add
  \/ LifecycleCallbacks

SpecSub == Init /\ [][NextSub]_vars

(* --------------------------- node identity ----------------------------- *)

(* the node_id and node_type arguments of MQTTNode(...), "" for the default *)
NodeIdArgs == {"", "n1", "n2"}
NodeTypeArgs == {"", "sensor"}

(* f"{node_type}_{k}" *)
FormatId(type, k) == [prefix |-> type, seq |-> k]
(* an id given by the caller *)
ExplicitId(nid) == [prefix |-> nid, seq |-> -1]
NoId == [prefix |-> "", seq |-> -1]

(* _get_id, lines 285-287, on the instance attributes self has when it is  *)
(* called: f"{self.node_type}_{next(self._ids)}" reads self.node_type      *)
(* before it takes the next value of the class counter                     *)
get_id(self, counter) ==
  IF "node_type" \in DOMAIN self
    THEN [raised |-> "none", value |-> FormatId(self.node_type, counter),
          counter |-> counter + 1]
    ELSE [raised |-> "AttributeError", value |-> NoId, counter |-> counter]

(* MQTTNode.__init__, lines 119-121: self.name, then self.node_id =        *)
(* node_id or self._get_id(), then self.node_type = node_type or the class *)
(* name                                                                    *)
MQTTNode_init(nid, ntype) ==
  /\ Len(nodes) < MaxNodes
  /\ LET self119 == [name |-> "node"]
         got == IF nid # ""
                  THEN [raised |-> "none", value |-> ExplicitId(nid),
                        counter |-> ids]
                  ELSE get_id(self119, ids)
         type == IF ntype # "" THEN ntype ELSE "MQTTNode"
     IN /\ ids' = got.counter
        /\ nodes' = Append(nodes, [explicit |-> nid # "",
                                   raised |-> got.raised,
                                   node_id |-> got.value,
                                   node_type |-> type])
  /\ UNCHANGED << nodeVars, lastSub, msgHist, sdVars >>

NextIds == \E nid \in NodeIdArgs, ntype \in NodeTypeArgs :
             MQTTNode_init(nid, ntype)

SpecIds == Init /\ [][NextIds]_vars

(* ---------------------------- shorten_data ----------------------------- *)
(* A string is the sequence of its characters.                             *)

Whitespace == {" ", "\n", "\t"}
Ellipsis == << ".", ".", "." >>

RECURSIVE lstrip(_)
lstrip(data) ==
  IF data # << >> /\ Head(data) \in Whitespace
    THEN lstrip(Tail(data))
    ELSE data

RECURSIVE rstrip(_)
rstrip(data) ==
  IF data # << >> /\ data[Len(data)] \in Whitespace
    THEN rstrip(SubSeq(data, 1, Len(data) - 1))
    ELSE data

(* str.strip() *)
strip(data) == rstrip(lstrip(data))

(* shorten_data as it would be without line 30 *)
shorten_data_no_strip(data, max_length) ==
  IF Len(data) > max_length
    THEN SubSeq(data, 1, max_length) \o Ellipsis
    ELSE data

(* shorten_data, lines 26-31, on a str *)
shorten_data(data, max_length) ==
  LET stripped == strip(data)
  IN IF Len(stripped) > max_length
       THEN SubSeq(stripped, 1, max_length) \o Ellipsis
       ELSE stripped

(* the strings the function is applied to: l whitespace characters, n      *)
(* characters of text with a space as every fourth, t whitespace characters *)
Pad(k) == [i \in 1..k |-> " "]
Body(n) == [i \in 1..n |-> IF i % 4 = 0 THEN " "
                             ELSE IF i % 2 = 0 THEN "b" ELSE "a"]
ShortenInputs ==
  { Pad(l) \o Body(n) \o Pad(t) :
      l \in 0..MaxPad, n \in 0..MaxBody, t \in 0..MaxPad }

InitShorten ==
  /\ InitNode
  /\ InitIds
  /\ sdIn \in ShortenInputs
  /\ sdOut = << >>

(* shorten_data(x) *)
shorten_first ==
  /\ sdOut = << >>
  /\ sdOut' = << shorten_data(sdIn, default_max_length) >>
  /\ UNCHANGED << nodeVars, lastSub, msgHist, idVars, sdIn >>

(* shorten_data(shorten_data(x)) *)
shorten_again ==
  /\ Len(sdOut) = 1
  /\ sdOut' = Append(sdOut, shorten_data(sdOut[1], default_max_length))
  /\ UNCHANGED << nodeVars, lastSub, msgHist, idVars, sdIn >>

NextShorten ==
  \/ shorten_first
  \/ shorten_again

SpecShorten == InitShorten /\ [][NextShorten]_vars

(* ---------------------------- properties ------------------------------- *)

C2_NoResubscribeAfterUnsubscribe == resubscribed = {}

(* C3: the registry holds exactly one entry per distinct topic filter.     *)
C3_OneEntryPerFilter ==
  Cardinality(Filters(subscriptions)) = Len(subscriptions)

(* reconnect() calls made so far by the running ensure_connection *)
Attempts == IF reconnects = 0 THEN 0 ELSE reconnects - 1

(* C4: while no connection attempt of the call gets through,               *)
(* ensure_connection makes at most reconnect_attempts reconnect attempts.  *)
C4_BoundedRetry == ~callOk => Attempts <= reconnect_attempts

(* C5: connect() has started the background task before it attempts any    *)
(* connection, returns normally only after an is_connected() of the call   *)
(* returned True, and a refused connection never makes it raise.           *)
C5_ConnectBlocksUntilConnected ==
  /\ (op = "connect" /\ pc \in {"c163", "e215", "e218", "e220"})
       => loopStarted
  /\ (op = "connect" /\ pc = "idle" /\ raised = "none") => callUp
  /\ ~(op = "connect" /\ pc = "idle" /\ raised = "ConnectionRefusedError")

(* C6: the step of ensure_connection that finds the transport connected at *)
(* line 215 returns at once: no reconnect or connect (the session is left  *)
(* as it is), no pass of the loop and so no sleep, registry and counters   *)
(* unchanged.                                                              *)
C6_EnsureConnectedIsNoop ==
  [][ (pc = "e215" /\ is_connected /\ pc' # pc) =>
        /\ pc' = AfterEnsure
        /\ reconnects' = reconnects
        /\ link' = link
        /\ subscriptions' = subscriptions
        /\ counterVars' = counterVars
        /\ inflight' = inflight
        /\ replayVars' = replayVars ]_vars

(* a publish() whose ensure_connection returned at line 215 *)
C6_Witness ==
  /\ op = "publish"
  /\ pc = "p231"
  /\ ~callDown
  /\ reconnects = 0

(* C7: no step of a connect() call that has found the transport connected  *)
(* at each of its is_connected() tests changes the session, starts a       *)
(* replay, or changes the registry or a counter.                           *)
C7_ConnectIdempotent ==
  [][ (op' = "connect" /\ pc' # pc /\ is_connected /\ ~callDown') =>
        /\ link' = link
        /\ connects' = connects
        /\ replayVars' = replayVars
        /\ subscriptions' = subscriptions
        /\ counterVars' = counterVars ]_vars

(* a connect() called on a connected node has returned *)
C7_Witness ==
  /\ op = "connect"
  /\ pc = "idle"
  /\ raised = "none"
  /\ ~callDown
  /\ callUp
  /\ connects = 1
  /\ is_connected

(* C8: publish() never ends by raising a network-level error.              *)
C8_PublishNeverRaises == ~(op = "publish" /\ pc = "idle" /\ raised # "none")

(* C9: when publish() hands the message to the transport, an               *)
(* is_connected() of the same call has returned True, and if one returned  *)
(* False before, the call has made at least one reconnect attempt.         *)
C9_PublishAfterEnsure ==
  pc = "p231" => (callUp /\ (callDown => Attempts >= 1))

(* a publish() on a node that had lost its session reconnected and        *)
(* reached line 231                                                        *)
C9_Witness ==
  /\ pc = "p231"
  /\ callDown
  /\ Attempts >= 1
  /\ drops = 1
  /\ connects = 2
  /\ is_connected

(* C10: the sent-message counter equals the number of on_publish callbacks *)
(* delivered, and never exceeds the number of publish() calls.             *)
C10_SentCountsAcks ==
  /\ msgSent = acks
  /\ msgSent <= pubCalls

(* two publish() calls made, one acknowledged, one still in flight *)
C10_Witness ==
  /\ pubCalls = 2
  /\ msgSent = 1
  /\ inflight = 1

(* C11: every message-received callback adds exactly 1 to the received-    *)
(* message counter and exactly the byte length of its payload to the       *)
(* received-bytes counter, so that N callbacks add N and the sum of the    *)
(* payload lengths; no step changes either counter otherwise, and neither  *)
(* counter ever decreases.                                                 *)
C11_ReceivedCounters ==
  [][ /\ msgRecv' - msgRecv = delivered' - delivered
      /\ bytesRecv' - bytesRecv = deliveredBytes' - deliveredBytes
      /\ delivered' # delivered => msgRecv' = msgRecv + 1
      /\ msgRecv' >= msgRecv
      /\ bytesRecv' >= bytesRecv ]_vars

(* two messages of different sizes were received, the second after a *)
(* reconnect                                                         *)
C11_Witness ==
  /\ delivered = 2
  /\ msgRecv = 2
  /\ deliveredBytes = 3
  /\ bytesRecv = 3
  /\ connects = 2

(* an entry of the registry stays where it is *)
EntriesKept(before, after) ==
  /\ Len(after) >= Len(before)
  /\ \A i \in 1..Len(before) : after[i] = before[i]

(* C12: no step other than an explicit unsubscribe removes an entry from   *)
(* the registry: not a connect, a connect failure, a disconnect, a         *)
(* reconnect, a replay, a publish, a message or a publish acknowledgment;  *)
(* a registered filter stays registered across disconnect and reconnect.   *)
C12_NoAutomaticRemoval ==
  [][ (op' = "unsubscribe" /\ calls' # calls)
        \/ EntriesKept(subscriptions, subscriptions') ]_vars

(* a filter the caller registered is still registered after the session *)
(* was lost and established again                                       *)
C12_Witness ==
  /\ drops = 1
  /\ connects = 2
  /\ link = "connected"
  /\ \E i \in 1..Len(subscriptions) :
       /\ subscriptions[i].kind = "tuple"
       /\ subscriptions[i].oid > 1
       /\ subscriptions[i] \in Range(replaySnap)

(* the constructions before the i-th that took an id from the allocator *)
AllocatedBefore(i) ==
  Cardinality({ j \in 1..(i - 1) : ~nodes[j].explicit })

(* C13: a construction without an explicit node_id succeeds and gives the  *)
(* node the id "{node_type}_{k}", k being the number of ids allocated      *)
(* before it; two such nodes have different ids; a construction with an    *)
(* explicit id takes no sequence number.                                   *)
C13_GeneratedIds ==
  /\ \A i \in 1..Len(nodes) :
       ~nodes[i].explicit =>
         /\ nodes[i].raised = "none"
         /\ nodes[i].node_id =
              FormatId(nodes[i].node_type, AllocatedBefore(i))
  /\ \A i, j \in 1..Len(nodes) :
       (i # j /\ ~nodes[i].explicit /\ ~nodes[j].explicit)
         => nodes[i].node_id # nodes[j].node_id
  /\ ids = AllocatedBefore(Len(nodes) + 1)

(* the input without the whitespace at its ends *)
Trimmed(x) ==
  LET text == { i \in 1..Len(x) : x[i] \notin Whitespace }
  IN IF text = {} THEN << >>
     ELSE SubSeq(x, CHOOSE i \in text : \A j \in text : i <= j,
                    CHOOSE i \in text : \A j \in text : i >= j)

(* C14 as stated: shorten_data is idempotent on inputs of at most 75       *)
(* characters, and an input of more than 75 characters gives its own first *)
(* 75 characters followed by the ellipsis, 78 characters.                  *)
C14_ShortenAsStated ==
  /\ (Len(sdIn) <= default_max_length /\ Len(sdOut) = 2)
       => sdOut[2] = sdOut[1]
  /\ (Len(sdIn) > default_max_length /\ Len(sdOut) >= 1)
       => /\ sdOut[1] = SubSeq(sdIn, 1, default_max_length) \o Ellipsis
          /\ Len(sdOut[1]) = default_max_length + 3

(* C14, amended: shorten_data is idempotent on inputs of at most 75        *)
(* characters; it works on the input without the whitespace at its ends:   *)
(* if that is longer than 75 characters the result is its first 75         *)
(* characters followed by the ellipsis, 78 characters, and otherwise the   *)
(* result is the trimmed input itself.                                     *)
C14_ShortenOfTrimmed ==
  /\ (Len(sdIn) <= default_max_length /\ Len(sdOut) = 2)
       => sdOut[2] = sdOut[1]
  /\ Len(sdOut) >= 1 =>
       IF Len(Trimmed(sdIn)) > default_max_length
         THEN /\ sdOut[1] =
                   SubSeq(Trimmed(sdIn), 1, default_max_length) \o Ellipsis
              /\ Len(sdOut[1]) = default_max_length + 3
         ELSE sdOut[1] = Trimmed(sdIn)

(* an input that starts with whitespace and is truncated, shortened twice *)
C14_Witness ==
  /\ Len(sdOut) = 2
  /\ sdIn # << >>
  /\ sdIn[1] \in Whitespace
  /\ Len(Trimmed(sdIn)) > default_max_length
  /\ sdOut[1] # SubSeq(sdIn, 1, default_max_length) \o Ellipsis

(* C15: accesses to the registry are serialized: the caller's subscribe is *)
(* never between its transport call and its registry update while a replay *)
(* is in progress, and no replay subscribes an entry that the caller's     *)
(* subscribe call appended, after subscribing it itself, while that replay *)
(* was iterating.                                                          *)
C15_RegistrySerialized ==
  /\ ~(bg = "replay" /\ pc = "s192")
  /\ \A i \in 1..Len(replayLog) :
       ~(/\ i <= Len(subscriptions)
         /\ subscriptions[i] = lastSub.topic
         /\ lastSub.topic \notin Range(replaySnap))

(* C16: a step of the connect-failure or the disconnect callback leaves    *)
(* the link down, issues no connect or reconnect, and changes neither the  *)
(* registry nor a counter nor anything of the caller; a session is opened, *)
(* and a reconnect attempt counted, only by the caller's thread inside     *)
(* connect() or publish(), at the client.connect of connect() or the       *)
(* reconnect of ensure_connection; while the caller does nothing, nothing  *)
(* reconnects.                                                             *)
C16_CallbacksOnlyLog ==
  [][ /\ drops' # drops =>
           /\ link' = "down"
           /\ subscriptions' = subscriptions
           /\ counterVars' = counterVars
           /\ callerVars' = callerVars
           /\ replayVars' = replayVars
      /\ (link' = "connecting" /\ link # "connecting") =>
           /\ pc \in {"c163", "e220"}
           /\ op \in {"connect", "publish"}
      /\ Attempts' > Attempts =>
           /\ pc = "e220"
           /\ op \in {"connect", "publish"}
      /\ callerVars' = callerVars => link' # "connecting" \/ link = "connecting"
    ]_vars

(* the session was lost, the callback has run, the caller is idle and the *)
(* link is still down                                                     *)
C16_Witness ==
  /\ drops = 1
  /\ connects >= 1
  /\ link = "down"
  /\ pc = "idle"
  /\ bg = "idle"
  /\ calls = 1

(* C17: a replay leaves the registry as it found it: with no registry call *)
(* from the caller, the registry during and after every replay has the     *)
(* entries, in the order, that it had when the connect-success callback    *)
(* started, bare topic strings given at construction included.             *)
C17_ReplayKeepsRegistry ==
  connects > 0 => subscriptions = replaySnap

(* C18: in the first connect() of a node, once the initial client.connect  *)
(* has succeeded and while the session is not lost, ensure_connection has  *)
(* made no reconnect attempt, and at most one connect-success callback,    *)
(* hence one replay, has run.                                              *)
C18_ConnectOnce ==
  (op = "connect" /\ calls = 1 /\ callOk /\ raised = "none" /\ drops = 0)
    => (Attempts = 0 /\ connects <= 1)

(* C19: once subscribe(topic) has returned, its topic is in the registry,  *)
(* whatever result code the transport gave, the no-connection code of a    *)
(* disconnected node included; and every replay that has finished and      *)
(* whose connect-success callback found the topic in the registry has      *)
(* issued a subscribe call for it.                                         *)
C19_SubscribeAlwaysRegisters ==
  /\ (lastSub # NoSub /\ pc # "s192") => lastSub.topic \in Range(subscriptions)
  /\ (connects > 0 /\ bg = "idle" /\ lastSub.topic \in Range(replaySnap)) =>
       \E i \in 1..Len(replayLog) :
         /\ subscriptions[i] = lastSub.topic
         /\ replayLog[i].filter = lastSub.topic.filter

(* a topic subscribed while disconnected, with the no-connection result, *)
(* got its subscribe call in the replay of the next connect success      *)
C19_Witness ==
  /\ lastSub.rc = MQTT_ERR_NO_CONN
  /\ lastSub.topic \in Range(replaySnap)
  /\ connects = 1
  /\ bg = "idle"
  /\ \E i \in 1..Len(replayLog) :
       /\ subscriptions[i] = lastSub.topic
       /\ replayLog[i].filter = lastSub.topic.filter
       /\ replayLog[i].rc = 0

====
